---- MODULE Spec2Model ----
(***************************************************************************)
(* Model of the AI Data Scientist Assistant: the App workflow state        *)
(* machine, the FileUpload, GoalInput and ResultsDashboard components and  *)
(* the request client of services/geminiService.ts.                        *)
(*                                                                         *)
(* Strings whose content the code inspects (file names, MIME types, file   *)
(* content, goals, service replies to the target-column request) are       *)
(* sequences of one-character strings, so that trim, replace, split,       *)
(* includes, startsWith, endsWith and toLowerCase are computed.            *)
(* Messages the code only stores are TLA+ strings.                         *)
(***************************************************************************)
EXTENDS Integers, Sequences, FiniteSets, Bags, TLC

(***************************************************************************)
(*                          JavaScript string helpers                      *)
(***************************************************************************)

\* The characters String.prototype.trim removes (those the model uses).
WhiteSpace == {" ", "\n", "\r", "\t"}

RECURSIVE TrimStart(_)
TrimStart(s) ==
  IF s # <<>> /\ Head(s) \in WhiteSpace THEN TrimStart(Tail(s)) ELSE s

RECURSIVE TrimEnd(_)
TrimEnd(s) ==
  IF s # <<>> /\ s[Len(s)] \in WhiteSpace
  THEN TrimEnd(SubSeq(s, 1, Len(s) - 1)) ELSE s

\* String.prototype.trim
Trim(s) == TrimEnd(TrimStart(s))

\* s.replace(/"/g, ''): every double quote is removed, wherever it stands.
RemoveQuotes(s) == SelectSeq(s, LAMBDA ch : ch # "\"")

\* s.startsWith(p)
StartsWith(s, p) == Len(p) <= Len(s) /\ SubSeq(s, 1, Len(p)) = p

\* s.endsWith(p)
EndsWith(s, p) ==
  Len(p) <= Len(s) /\ SubSeq(s, Len(s) - Len(p) + 1, Len(s)) = p

\* s.includes(p)
Includes(s, p) ==
  \E i \in 0 .. (Len(s) - Len(p)) : SubSeq(s, i + 1, i + Len(p)) = p

\* String.prototype.toLowerCase on one character.
LowerChar(ch) ==
  CASE ch = "A" -> "a" [] ch = "B" -> "b" [] ch = "C" -> "c" [] ch = "D" -> "d"
    [] ch = "E" -> "e" [] ch = "F" -> "f" [] ch = "G" -> "g" [] ch = "H" -> "h"
    [] ch = "I" -> "i" [] ch = "J" -> "j" [] ch = "K" -> "k" [] ch = "L" -> "l"
    [] ch = "M" -> "m" [] ch = "N" -> "n" [] ch = "O" -> "o" [] ch = "P" -> "p"
    [] ch = "Q" -> "q" [] ch = "R" -> "r" [] ch = "S" -> "s" [] ch = "T" -> "t"
    [] ch = "U" -> "u" [] ch = "V" -> "v" [] ch = "W" -> "w" [] ch = "X" -> "x"
    [] ch = "Y" -> "y" [] ch = "Z" -> "z" [] OTHER -> ch

\* String.prototype.toLowerCase
ToLowerCase(s) == [i \in 1 .. Len(s) |-> LowerChar(s[i])]

\* s.split(sep) for a one-character separator: always at least one piece.
RECURSIVE SplitAcc(_, _, _)
SplitAcc(s, sep, cur) ==
  IF s = <<>> THEN <<cur>>
  ELSE IF Head(s) = sep THEN <<cur>> \o SplitAcc(Tail(s), sep, <<>>)
  ELSE SplitAcc(Tail(s), sep, Append(cur, Head(s)))

Split(s, sep) == SplitAcc(s, sep, <<>>)

\* headers.includes(x) on an array
ArrayIncludes(arr, x) == \E i \in 1 .. Len(arr) : arr[i] = x

\* The value of an out-of-range array read, arr[-1].
Undefined == <<"<undefined>">>

(***************************************************************************)
(*                     types.ts: AppState and TaskType                     *)
(***************************************************************************)

FILE_UPLOAD == "FILE_UPLOAD"
GOAL_INPUT == "GOAL_INPUT"
PROCESSING == "PROCESSING"
MODEL_SELECTION == "MODEL_SELECTION"
RESULTS_DASHBOARD == "RESULTS_DASHBOARD"

AppState ==
  {FILE_UPLOAD, GOAL_INPUT, PROCESSING, MODEL_SELECTION, RESULTS_DASHBOARD}

CLASSIFICATION == "CLASSIFICATION"
REGRESSION == "REGRESSION"
OTHER_TASK == "OTHER"

\* JavaScript null, for the string-or-null and object-or-null state slots.
Null == "null"
NullObj == [t |-> "null"]

(***************************************************************************)
(*                 Task classification (App.handleGoalSubmit)              *)
(***************************************************************************)

kClassify == <<"c", "l", "a", "s", "s", "i", "f", "y">>
kCategorize == <<"c", "a", "t", "e", "g", "o", "r", "i", "z", "e">>
kIdentify == <<"i", "d", "e", "n", "t", "i", "f", "y">>
kPredict == <<"p", "r", "e", "d", "i", "c", "t">>
kForecast == <<"f", "o", "r", "e", "c", "a", "s", "t">>
kEstimate == <<"e", "s", "t", "i", "m", "a", "t", "e">>

\* A plausible slip: the regression test placed before the classification one.
classifyTaskRegressionFirst(goal) ==
  LET lowerGoal == ToLowerCase(goal)
  IN  IF Includes(lowerGoal, kPredict) \/ Includes(lowerGoal, kForecast)
         \/ Includes(lowerGoal, kEstimate)
      THEN REGRESSION
      ELSE IF Includes(lowerGoal, kClassify) \/ Includes(lowerGoal, kCategorize)
              \/ Includes(lowerGoal, kIdentify)
      THEN CLASSIFICATION
      ELSE OTHER_TASK

\* A plausible slip: the final else falls back to REGRESSION.
classifyTaskDefaultRegression(goal) ==
  LET lowerGoal == ToLowerCase(goal)
  IN  IF Includes(lowerGoal, kClassify) \/ Includes(lowerGoal, kCategorize)
         \/ Includes(lowerGoal, kIdentify)
      THEN CLASSIFICATION
      ELSE REGRESSION

\* The if / else-if / else chain that chooses the argument of setTaskType.
classifyTask(goal) ==
  LET lowerGoal == ToLowerCase(goal)
  IN  IF Includes(lowerGoal, kClassify) \/ Includes(lowerGoal, kCategorize)
         \/ Includes(lowerGoal, kIdentify)
      THEN CLASSIFICATION
      ELSE IF Includes(lowerGoal, kPredict) \/ Includes(lowerGoal, kForecast)
              \/ Includes(lowerGoal, kEstimate)
      THEN REGRESSION
      ELSE OTHER_TASK

(***************************************************************************)
(*          geminiService.extractTargetColumn, after the reply             *)
(***************************************************************************)

\* A plausible slip: the cleaned reply is returned without the membership test.
targetFromResponseUnchecked(text, headers) == RemoveQuotes(Trim(text))

\* A plausible slip: the quotes are removed but the reply is not trimmed.
targetFromResponseNoTrim(text, headers) ==
  LET potentialTarget == RemoveQuotes(text)
  IN  IF ArrayIncludes(headers, potentialTarget) THEN potentialTarget
      ELSE IF Len(headers) = 0 THEN Undefined
      ELSE headers[Len(headers)]

\* potentialTarget, the includes test and the last-column fallback.
targetFromResponse(text, headers) ==
  LET potentialTarget == RemoveQuotes(Trim(text))
  IN  IF ArrayIncludes(headers, potentialTarget) THEN potentialTarget
      ELSE IF Len(headers) = 0 THEN Undefined
      ELSE headers[Len(headers)]

(***************************************************************************)
(*             FileUpload.onDrop: reader.onload header derivation          *)
(***************************************************************************)

\* A plausible slip: quotes are removed but the field is not trimmed.
cleanHeaderNoTrim(h) == RemoveQuotes(h)

\* h => h.trim().replace(/"/g, '')
cleanHeader(h) == RemoveQuotes(Trim(h))

\* content.split('\n'), lines[0].split(',').map(...)
deriveHeaders(content) ==
  LET lines == Split(content, "\n")
      fields == Split(lines[1], ",")
  IN  [i \in 1 .. Len(fields) |-> cleanHeader(fields[i])]

\* A plausible slip: an image is recognised by the extension of its name.
isImageFileByName(file) == EndsWith(file.name, <<".", "p", "n", "g">>)

\* file.type.startsWith('image/')
isImageFile(file) == StartsWith(file.type, <<"i", "m", "a", "g", "e", "/">>)

\* file.type === 'text/csv' || file.name.endsWith('.csv')
isCsvFile(file) ==
  \/ file.type = <<"t", "e", "x", "t", "/", "c", "s", "v">>
  \/ EndsWith(file.name, <<".", "c", "s", "v">>)

(***************************************************************************)
(*                    Bounds and the inputs of the workflow                *)
(***************************************************************************)

\* FileReader loads and suspended handleGoalSubmit invocations that may be
\* pending at once, taken together.
MaxPending == 2

csvName == <<"s", ".", "c", "s", "v">>
pngName == <<"p", ".", "p", "n", "g">>
mimeCsv == <<"t", "e", "x", "t", "/", "c", "s", "v">>
mimePng == <<"i", "m", "a", "g", "e", "/", "p", "n", "g">>
mimeNone == <<>>

\* The files the user drops: a two-column CSV, an image, and a file dropzone
\* accepts by extension whose MIME type is not an image type.
DroppedFiles ==
  { [name |-> csvName, type |-> mimeCsv,
     content |-> <<"a", ",", "\"", "b", "\"", "\n", "1", ",", "2">>],
    [name |-> pngName, type |-> mimePng, content |-> <<"D">>],
    [name |-> pngName, type |-> mimeNone, content |-> <<"D">>] }

\* What the user may have typed into the goal box when the form is submitted.
TypedGoals ==
  { <<" ", "C", "l", "a", "s", "s", "i", "f", "y", " ">>,
    kForecast,
    <<" ">> }

\* Service replies to the target-column prompt.
TargetReplies == { <<"\"", "a", "\"">>, <<"z">> }

\* Service reply texts for the schema-constrained prompts.  A text is known
\* to the model by what JSON.parse makes of it (parseJson).
txtSuggestion == "{recommended,options,more_models}"
txtNull == "null"
txtMetrics == "{metrics}"
txtSampleA == "{a:7}"
txtSampleEmpty == "{}"
txtGarbage == "<html>"

SuggestionReplies == {txtSuggestion, txtNull, txtGarbage}
MetricsReplies == {txtMetrics, txtGarbage}
SampleReplies == {txtSampleA, txtSampleEmpty, txtNull, txtGarbage}

\* Values typed into a test-bench field.
FieldValues == { <<>>, <<" ">>, <<"7">> }

\* The ModelSuggestion object the well-formed reply parses to.
okSuggestion ==
  [t |-> "obj", recommended |-> "M1", options |-> <<"M1">>,
   more_models |-> <<"M2">>]

okMetrics == [t |-> "obj", metrics |-> "scores"]

\* An object without properties, {}.
NoProps == [k \in {} |-> <<>>]

\* String(value) for a JSON number or string.
JsString(value) ==
  IF value.t = "str" THEN value.v
  ELSE CASE value.v = 7 -> <<"7">> [] OTHER -> <<"0">>

\* JSON.parse(text): the parsed value, or no value when it throws.
parseJson(text) ==
  CASE text = txtSuggestion -> [ok |-> TRUE, value |-> okSuggestion]
    [] text = txtMetrics -> [ok |-> TRUE, value |-> okMetrics]
    [] text = txtNull -> [ok |-> TRUE, value |-> NullObj]
    [] text = txtSampleA ->
         [ok |-> TRUE, value |-> [t |-> "obj",
            props |-> (<<"a">> :> [t |-> "num", v |-> 7])]]
    [] text = txtSampleEmpty ->
         [ok |-> TRUE, value |-> [t |-> "obj", props |-> NoProps]]
    [] OTHER -> [ok |-> FALSE]

(***************************************************************************)
(*                                  State                                  *)
(***************************************************************************)

VARIABLES
  appState,          \* App: useState<AppState>
  fileData,          \* App: useState<FileData | null>
  userGoal,          \* App: useState<string>
  taskType,          \* App: useState<TaskType>
  targetColumn,      \* App: useState<string>
  modelSuggestions,  \* App: useState<ModelSuggestion | null>
  selectedModel,     \* App: useState<string>
  error,             \* App: useState<string | null>
  uploadError,       \* FileUpload: useState<string | null> (error)
  readers,           \* FileUpload: FileReader loads in progress (a bag)
  goalTasks,         \* handleGoalSubmit invocations suspended at an await
                     \* (a bag)
  dash,              \* ResultsDashboard: its useState slots and its requests
  arg,               \* argument of a function exercised on its own
  result             \* what that function returned

appVars ==
  <<appState, fileData, userGoal, taskType, targetColumn, modelSuggestions,
    selectedModel, error>>

vars ==
  <<appState, fileData, userGoal, taskType, targetColumn, modelSuggestions,
    selectedModel, error, uploadError, readers, goalTasks, dash,
    arg, result>>

\* The functions exercised on their own leave the workflow alone, and the
\* workflow leaves them alone.
pureVars == <<arg, result>>

workflowVars ==
  <<appState, fileData, userGoal, taskType, targetColumn, modelSuggestions,
    selectedModel, error, uploadError, readers, goalTasks, dash>>

NoArg == [none |-> TRUE]
NoResult == [none |-> TRUE]

\* The eight App slots as one record.
Session ==
  [appState |-> appState, fileData |-> fileData, userGoal |-> userGoal,
   taskType |-> taskType, targetColumn |-> targetColumn,
   modelSuggestions |-> modelSuggestions, selectedModel |-> selectedModel,
   error |-> error]

\* The eight useState initial values of App.
InitSession ==
  [appState |-> FILE_UPLOAD, fileData |-> NullObj, userGoal |-> <<>>,
   taskType |-> OTHER_TASK, targetColumn |-> <<>>,
   modelSuggestions |-> NullObj, selectedModel |-> "", error |-> Null]

msgSuggestFailed == "Failed to get model suggestions. Please try again."
msgInvalidFile == "Invalid file type. Please upload a CSV or an image file."
msgExplanationFailed == "Failed to generate workflow explanation."
msgMetricsFailed == "Failed to generate model metrics."
msgSampleFailed == "Failed to generate sample input."
msgFillAll == "Please fill in all input fields to test the model."
msgPredictionFailed == "Failed to generate prediction."

(***************************************************************************)
(*                       ResultsDashboard: local state                     *)
(***************************************************************************)

\* No dashboard is mounted.
NoDash == [mounted |-> FALSE]

\* The useState initial values of a dashboard that has just been mounted.
\* explanationReq and metricsReq are the two requests of fetchAllData: "none"
\* (not issued), "pending", "ok" or "failed"; samplePending and
\* predictionPending tell whether handleGenerateSample / handleTestModel wait
\* for their reply.
FreshDash ==
  [mounted |-> TRUE,
   explanation |-> "", metrics |-> NullObj, testInputValues |-> NoProps,
   prediction |-> "",
   isLoading |-> [explanation |-> TRUE, metrics |-> TRUE,
                  prediction |-> FALSE, sample |-> FALSE],
   error |-> Null,
   explanationReq |-> "none", metricsReq |-> "none", samplePending |-> FALSE, predictionPending |-> FALSE]

\* useEffect [fileData, targetColumn]: one blank input per feature column.
initialInputs(fd, target) ==
  LET keys == {fd.headers[i] : i \in 1 .. Len(fd.headers)} \ {target}
  IN  [k \in keys |-> <<>>]

\* The dashboard after the effect of lines 69-79 has run for (fd, target).
withInitialInputs(d, fd, target) ==
  IF fd.t = "file" /\ fd.type = "csv"
  THEN [d EXCEPT !.testInputValues = initialInputs(fd, target)]
  ELSE d

InitWorkflow ==
  /\ appState = FILE_UPLOAD
  /\ fileData = NullObj
  /\ userGoal = <<>>
  /\ taskType = OTHER_TASK
  /\ targetColumn = <<>>
  /\ modelSuggestions = NullObj
  /\ selectedModel = ""
  /\ error = Null
  /\ uploadError = Null
  /\ readers = EmptyBag
  /\ goalTasks = EmptyBag
  /\ dash = NoDash

Init ==
  /\ InitWorkflow
  /\ arg = NoArg
  /\ result = NoResult

(***************************************************************************)
(*                 Rendering: which components stay mounted                *)
(***************************************************************************)

\* The FileReader loads and handleGoalSubmit invocations now pending.
pendingCount == BagCardinality(readers) + BagCardinality(goalTasks)

\* Bag b with one x more, and with one x less.
With(b, x) == b (+) SetToBag({x})
Without(b, x) == b (-) SetToBag({x})

\* renderContent after App's slots have changed to stage newState and target
\* column newTarget: a mounted dashboard survives only while the stage stays
\* RESULTS_DASHBOARD (its effect [fileData, targetColumn] reruns when the
\* target column changed).  The setters of an unmounted dashboard reach no
\* component, so its requests are state no longer.  The FileUpload component,
\* and its error, lives only in FILE_UPLOAD.
Rerender(newState, newTarget) ==
  dash' = IF dash.mounted /\ newState = RESULTS_DASHBOARD
          THEN IF newTarget # targetColumn
               THEN withInitialInputs(dash, fileData, newTarget)
               ELSE dash
          ELSE NoDash

(***************************************************************************)
(*                               FileUpload                                *)
(***************************************************************************)

\* The FileData object reader.onload passes to onFileAccepted.
loadedFileData(file) ==
  IF isCsvFile(file)
  THEN [t |-> "file", name |-> file.name, type |-> "csv",
        content |-> file.content, headers |-> deriveHeaders(file.content)]
  ELSE [t |-> "file", name |-> file.name, type |-> "image",
        content |-> file.content]

\* onDrop(acceptedFiles), up to the start of the read.
OnDrop(acceptedFiles) ==
  /\ appState = FILE_UPLOAD
  /\ IF Len(acceptedFiles) = 0
     THEN /\ uploadError' = Null
          /\ UNCHANGED readers
     ELSE LET file == acceptedFiles[1]
          IN  IF ~isImageFile(file) /\ ~isCsvFile(file)
              THEN /\ uploadError' = msgInvalidFile
                   /\ UNCHANGED readers
              ELSE /\ pendingCount < MaxPending
                   /\ uploadError' = Null
                   /\ readers' = With(readers, file)
  /\ UNCHANGED <<appVars, goalTasks, dash, pureVars>>

\* reader.onload, which calls App.handleFileAccepted.
ReaderLoaded(file) ==
  /\ BagIn(file, readers)
  /\ readers' = Without(readers, file)
  /\ fileData' = loadedFileData(file)
  /\ appState' = GOAL_INPUT
  /\ error' = Null
  /\ uploadError' = Null
  /\ Rerender(GOAL_INPUT, targetColumn)
  /\ UNCHANGED <<userGoal, taskType, targetColumn, modelSuggestions,
                 selectedModel, goalTasks, pureVars>>

\* reader.onerror / reader.onabort: a console message only.
ReaderFailed(file) ==
  /\ BagIn(file, readers)
  /\ readers' = Without(readers, file)
  /\ UNCHANGED <<appVars, uploadError, goalTasks, dash, pureVars>>

(***************************************************************************)
(*                     GoalInput and App.handleGoalSubmit                  *)
(***************************************************************************)

\* A plausible slip: the text is passed on as typed, not trimmed.
GoalSubmitUntrimmed(typed) ==
  /\ appState = GOAL_INPUT
  /\ fileData # NullObj
  /\ Trim(typed) # <<>>
  /\ pendingCount < MaxPending
  /\ userGoal' = typed
  /\ appState' = PROCESSING
  /\ error' = Null
  /\ taskType' = classifyTask(typed)
  /\ goalTasks' = With(goalTasks,
       [fileData |-> fileData,
        pc |-> IF fileData.type = "csv" THEN "target" ELSE "suggest",
        stale |-> FALSE])
  /\ Rerender(PROCESSING, targetColumn)
  /\ UNCHANGED <<fileData, targetColumn, modelSuggestions, selectedModel,
                 uploadError, readers, pureVars>>

\* GoalInput.handleSubmit with the text typed, then handleGoalSubmit up to
\* its first await.  The form exists only while GoalInput has a fileData.
GoalSubmit(typed) ==
  /\ appState = GOAL_INPUT
  /\ fileData # NullObj
  /\ Trim(typed) # <<>>
  /\ pendingCount < MaxPending
  /\ LET goal == Trim(typed)
     IN  /\ userGoal' = goal
         /\ appState' = PROCESSING
         /\ error' = Null
         /\ taskType' = classifyTask(goal)
         /\ goalTasks' = With(goalTasks,
              [fileData |-> fileData,
               pc |-> IF fileData.type = "csv" THEN "target" ELSE "suggest",
               stale |-> FALSE])
  /\ Rerender(PROCESSING, targetColumn)
  /\ UNCHANGED <<fileData, targetColumn, modelSuggestions, selectedModel,
                 uploadError, readers, pureVars>>

\* GoalInput.handleSubmit when the trimmed text is empty: nothing is called.
GoalSubmitBlank(typed) ==
  /\ appState = GOAL_INPUT
  /\ fileData # NullObj
  /\ Trim(typed) = <<>>
  /\ UNCHANGED vars

\* A plausible slip: the catch block also empties the goal.
CatchGoalFailureClearsGoal(t) ==
  /\ error' = msgSuggestFailed
  /\ appState' = GOAL_INPUT
  /\ userGoal' = <<>>
  /\ goalTasks' = Without(goalTasks, t)
  /\ uploadError' = Null
  /\ Rerender(GOAL_INPUT, targetColumn)
  /\ UNCHANGED <<fileData, taskType, targetColumn, modelSuggestions,
                 selectedModel, readers, pureVars>>

\* A plausible slip: the catch block sets the error and leaves the stage.
CatchGoalFailureKeepsStage(t) ==
  /\ error' = msgSuggestFailed
  /\ goalTasks' = Without(goalTasks, t)
  /\ Rerender(appState, targetColumn)
  /\ UNCHANGED <<appState, fileData, userGoal, taskType, targetColumn,
                 modelSuggestions, selectedModel, uploadError, readers,
                 pureVars>>

\* A plausible slip: the catch block also empties the target column.
CatchGoalFailureClearsTarget(t) ==
  /\ error' = msgSuggestFailed
  /\ appState' = GOAL_INPUT
  /\ targetColumn' = <<>>
  /\ goalTasks' = Without(goalTasks, t)
  /\ uploadError' = Null
  /\ Rerender(GOAL_INPUT, <<>>)
  /\ UNCHANGED <<fileData, userGoal, taskType, modelSuggestions,
                 selectedModel, readers, pureVars>>

\* The catch block of handleGoalSubmit, entered by invocation t.
CatchGoalFailure(t) ==
  /\ error' = msgSuggestFailed
  /\ appState' = GOAL_INPUT
  /\ goalTasks' = Without(goalTasks, t)
  /\ uploadError' = Null
  /\ Rerender(GOAL_INPUT, targetColumn)
  /\ UNCHANGED <<fileData, userGoal, taskType, targetColumn, modelSuggestions,
                 selectedModel, readers, pureVars>>

\* extractTargetColumn resolves with reply text: setTargetColumn, then the
\* model-suggestions request is issued.
TargetResolved(t, text) ==
  /\ BagIn(t, goalTasks)
  /\ t.pc = "target"
  /\ LET target == targetFromResponse(text, t.fileData.headers)
     IN  /\ targetColumn' = target
         /\ Rerender(appState, target)
  /\ goalTasks' = With(Without(goalTasks, t), [t EXCEPT !.pc = "suggest"])
  /\ UNCHANGED <<appState, fileData, userGoal, taskType, modelSuggestions,
                 selectedModel, error, uploadError, readers, pureVars>>

\* A plausible slip: a failure of the target-column request is swallowed and
\* the model-suggestions request is issued all the same.
TargetFailedGoesOn(t) ==
  /\ BagIn(t, goalTasks)
  /\ t.pc = "target"
  /\ goalTasks' = With(Without(goalTasks, t), [t EXCEPT !.pc = "suggest"])
  /\ UNCHANGED <<appVars, uploadError, readers, dash, pureVars>>

\* The target-column request rejects (or its reply has no text).
TargetFailed(t) ==
  /\ BagIn(t, goalTasks)
  /\ t.pc = "target"
  /\ CatchGoalFailure(t)

\* generateModelSuggestions resolves with a text JSON.parse accepts.
SuggestionsResolved(t, text) ==
  /\ BagIn(t, goalTasks)
  /\ t.pc = "suggest"
  /\ parseJson(text).ok
  /\ modelSuggestions' = parseJson(text).value
  /\ appState' = MODEL_SELECTION
  /\ goalTasks' = Without(goalTasks, t)
  /\ uploadError' = Null
  /\ Rerender(MODEL_SELECTION, targetColumn)
  /\ UNCHANGED <<fileData, userGoal, taskType, targetColumn, selectedModel,
                 error, readers, pureVars>>

\* generateModelSuggestions throws: the reply text does not parse.
SuggestionsMalformed(t, text) ==
  /\ BagIn(t, goalTasks)
  /\ t.pc = "suggest"
  /\ ~parseJson(text).ok
  /\ CatchGoalFailure(t)

\* The model-suggestions request itself rejects.
SuggestionsFailed(t) ==
  /\ BagIn(t, goalTasks)
  /\ t.pc = "suggest"
  /\ CatchGoalFailure(t)

(***************************************************************************)
(*                 App.handleModelSelect and App.handleReset               *)
(***************************************************************************)

\* The names ModelSelection renders a card for.
offeredModels(suggestions) ==
  {suggestions.options[i] : i \in 1 .. Len(suggestions.options)}
    \cup {suggestions.more_models[i] : i \in 1 .. Len(suggestions.more_models)}

\* A plausible slip: both requests are issued before either is awaited.
fetchAllDataStartBoth(d, fd) ==
  IF fd = NullObj THEN d
  ELSE [d EXCEPT !.isLoading.explanation = TRUE, !.isLoading.metrics = TRUE,
                 !.explanationReq = "pending", !.metricsReq = "pending"]

\* fetchAllData up to its first await, run by the mount effect.
fetchAllDataStart(d, fd) ==
  IF fd = NullObj THEN d
  ELSE [d EXCEPT !.isLoading.explanation = TRUE,
                 !.explanationReq = "pending"]

\* A card of ModelSelection is clicked: handleModelSelect, then the mount of
\* ResultsDashboard with its two effects.
HandleModelSelect(model) ==
  /\ appState = MODEL_SELECTION
  /\ modelSuggestions # NullObj
  /\ model \in offeredModels(modelSuggestions)
  /\ selectedModel' = model
  /\ appState' = RESULTS_DASHBOARD
  /\ dash' = withInitialInputs(fetchAllDataStart(FreshDash, fileData),
                               fileData, targetColumn)
  /\ UNCHANGED <<fileData, userGoal, taskType, targetColumn, modelSuggestions,
                 error, uploadError, readers, goalTasks, pureVars>>

\* The suspended invocations of bag b, each marked as started before a reset.
markStale(b) ==
  LET marked == {[t EXCEPT !.stale = TRUE] : t \in BagToSet(b)}
  IN  [s \in marked |->
         CopiesIn(s, b) + CopiesIn([s EXCEPT !.stale = FALSE], b)]

\* A plausible slip: the reset forgets the target column.
handleResetKeepTarget(s) ==
  [s EXCEPT !.appState = FILE_UPLOAD, !.fileData = NullObj, !.userGoal = <<>>,
            !.modelSuggestions = NullObj, !.selectedModel = "",
            !.error = Null, !.taskType = OTHER_TASK]

\* A plausible slip: the reset forgets the task type.
handleResetKeepTaskType(s) ==
  [s EXCEPT !.appState = FILE_UPLOAD, !.fileData = NullObj, !.userGoal = <<>>,
            !.modelSuggestions = NullObj, !.selectedModel = "",
            !.error = Null, !.targetColumn = <<>>]

\* The eight setters of handleReset applied to the App slots s.
handleReset(s) ==
  [s EXCEPT !.appState = FILE_UPLOAD, !.fileData = NullObj, !.userGoal = <<>>,
            !.modelSuggestions = NullObj, !.selectedModel = "",
            !.error = Null, !.taskType = OTHER_TASK, !.targetColumn = <<>>]

\* The Start Over button, rendered outside FILE_UPLOAD.  Requests in flight
\* are not cancelled; stale records, for the invocations of handleGoalSubmit
\* still suspended, that a reset has happened since they started.
HandleReset ==
  /\ appState # FILE_UPLOAD
  /\ LET s == handleReset(Session)
     IN  /\ appState' = s.appState
         /\ fileData' = s.fileData
         /\ userGoal' = s.userGoal
         /\ taskType' = s.taskType
         /\ targetColumn' = s.targetColumn
         /\ modelSuggestions' = s.modelSuggestions
         /\ selectedModel' = s.selectedModel
         /\ error' = s.error
  /\ goalTasks' = markStale(goalTasks)
  /\ dash' = NoDash
  /\ UNCHANGED <<uploadError, readers, pureVars>>

(***************************************************************************)
(*                            ResultsDashboard                             *)
(***************************************************************************)

\* renderTestBench shows the form unless the file is an image.
testBenchShown ==
  /\ dash.mounted
  /\ ~(fileData # NullObj /\ fileData.type = "image")

\* inputHeaders of renderTestBench.
inputHeaders ==
  IF fileData # NullObj /\ fileData.type = "csv"
  THEN {fileData.headers[i] : i \in 1 .. Len(fileData.headers)} \ {targetColumn}
  ELSE {}

\* A plausible slip: the emptiness test without the trim.
someBlankNoTrim(values) == \E k \in DOMAIN values : values[k] = <<>>

\* Object.values(testInputValues).some(v => v.trim() === '')
someBlank(values) == \E k \in DOMAIN values : Trim(values[k]) = <<>>

\* The dashboard changes, nothing else does.
DashOnly ==
  UNCHANGED <<appVars, uploadError, readers, goalTasks, pureVars>>

\* fetchAllData after the explanation request resolved: setExplanation, the
\* finally block, then the metrics request is issued.
ExplanationResolved ==
  /\ dash.mounted /\ dash.explanationReq = "pending"
  /\ dash' = [dash EXCEPT !.explanation = "E",
                          !.isLoading.explanation = FALSE,
                          !.isLoading.metrics = TRUE,
                          !.explanationReq = "ok",
                          !.metricsReq = "pending"]
  /\ DashOnly

\* fetchAllData after the explanation request rejected: the catch and finally
\* blocks, then the metrics request is issued.
ExplanationFailed ==
  /\ dash.mounted /\ dash.explanationReq = "pending"
  /\ dash' = [dash EXCEPT !.error = msgExplanationFailed,
                          !.isLoading.explanation = FALSE,
                          !.isLoading.metrics = TRUE,
                          !.explanationReq = "failed",
                          !.metricsReq = "pending"]
  /\ DashOnly

\* A plausible slip: the success path of the metrics request clears the error.
MetricsResolvedClearsError(text) ==
  /\ dash.mounted /\ dash.metricsReq = "pending"
  /\ parseJson(text).ok
  /\ dash' = [dash EXCEPT !.metrics = parseJson(text).value,
                          !.error = Null,
                          !.isLoading.metrics = FALSE,
                          !.metricsReq = "ok"]
  /\ UNCHANGED <<appVars, uploadError, readers, goalTasks, pureVars>>

\* generateMetrics resolves with a text JSON.parse accepts.
MetricsResolved(text) ==
  /\ dash.mounted /\ dash.metricsReq = "pending"
  /\ parseJson(text).ok
  /\ dash' = [dash EXCEPT !.metrics = parseJson(text).value,
                          !.isLoading.metrics = FALSE,
                          !.metricsReq = "ok"]
  /\ DashOnly

\* generateMetrics throws (unparsable text) or its request rejects.
MetricsFailed ==
  /\ dash.mounted /\ dash.metricsReq = "pending"
  /\ dash' = [dash EXCEPT !.error = msgMetricsFailed,
                          !.isLoading.metrics = FALSE,
                          !.metricsReq = "failed"]
  /\ DashOnly

\* handleInputChange(header, value) from one of the rendered inputs.
HandleInputChange(header, value) ==
  /\ testBenchShown
  /\ header \in inputHeaders
  /\ dash' = [dash EXCEPT !.testInputValues =
                [k \in DOMAIN @ \cup {header} |->
                   IF k = header THEN value ELSE @[k]]]
  /\ DashOnly

\* handleGenerateSample up to its await; the button is disabled while a
\* sample is loading, and without a CSV file the handler returns at once.
HandleGenerateSample ==
  /\ testBenchShown
  /\ ~dash.isLoading.sample
  /\ fileData # NullObj /\ fileData.type = "csv" /\ fileData.content # <<>>
  /\ dash' = [dash EXCEPT !.isLoading.sample = TRUE, !.prediction = "",
                          !.samplePending = TRUE]
  /\ DashOnly

\* generateSampleInput resolves with an object: its entries, as strings,
\* replace the test inputs.
SampleResolved(text) ==
  /\ dash.mounted /\ dash.samplePending
  /\ parseJson(text).ok /\ parseJson(text).value # NullObj
  /\ LET sample == parseJson(text).value.props
     IN  dash' = [dash EXCEPT !.testInputValues =
                    [k \in DOMAIN sample |-> JsString(sample[k])],
                  !.isLoading.sample = FALSE, !.samplePending = FALSE]
  /\ DashOnly

\* generateSampleInput throws or rejects, or Object.entries throws on null.
SampleFailed ==
  /\ dash.mounted /\ dash.samplePending
  /\ dash' = [dash EXCEPT !.error = msgSampleFailed,
                          !.isLoading.sample = FALSE, !.samplePending = FALSE]
  /\ DashOnly

\* handleTestModel up to its await (or its early return).  The handler makes
\* the emptiness test itself (line 100), so it is modelled as callable with
\* blank fields although the button repeats the test in its disabled
\* attribute; the button does not respond while a prediction is loading.
HandleTestModel ==
  /\ testBenchShown
  /\ ~dash.isLoading.prediction
  /\ IF someBlank(dash.testInputValues)
     THEN dash' = [dash EXCEPT !.error = msgFillAll]
     ELSE dash' = [dash EXCEPT !.error = Null, !.isLoading.prediction = TRUE,
                               !.prediction = "", !.predictionPending = TRUE]
  /\ DashOnly

\* generatePrediction resolves.
PredictionResolved ==
  /\ dash.mounted /\ dash.predictionPending
  /\ dash' = [dash EXCEPT !.prediction = "P", !.isLoading.prediction = FALSE,
                          !.predictionPending = FALSE]
  /\ DashOnly

\* A plausible slip: a try/finally without the catch block, so the failure
\* leaves no message.
PredictionFailedSilently ==
  /\ dash.mounted /\ dash.predictionPending
  /\ dash' = [dash EXCEPT !.isLoading.prediction = FALSE,
                          !.predictionPending = FALSE]
  /\ UNCHANGED <<appVars, uploadError, readers, goalTasks, pureVars>>

\* generatePrediction rejects.
PredictionFailed ==
  /\ dash.mounted /\ dash.predictionPending
  /\ dash' = [dash EXCEPT !.error = msgPredictionFailed,
                          !.isLoading.prediction = FALSE,
                          !.predictionPending = FALSE]
  /\ DashOnly

(***************************************************************************)
(*                             Specification                               *)
(***************************************************************************)

Next ==
  \/ \E f \in DroppedFiles : OnDrop(<<f>>)
  \/ OnDrop(<<>>)
  \/ \E f \in BagToSet(readers) : ReaderLoaded(f)
  \/ \E f \in BagToSet(readers) : ReaderFailed(f)
  \/ \E g \in TypedGoals : GoalSubmit(g)
  \/ \E g \in TypedGoals : GoalSubmitBlank(g)
  \/ \E t \in BagToSet(goalTasks), r \in TargetReplies : TargetResolved(t, r)
  \/ \E t \in BagToSet(goalTasks) : TargetFailed(t)
  \/ \E t \in BagToSet(goalTasks), r \in SuggestionReplies :
        SuggestionsResolved(t, r)
  \/ \E t \in BagToSet(goalTasks), r \in SuggestionReplies :
        SuggestionsMalformed(t, r)
  \/ \E t \in BagToSet(goalTasks) : SuggestionsFailed(t)
  \/ \E m \in {"M1", "M2"} : HandleModelSelect(m)
  \/ HandleReset
  \/ ExplanationResolved
  \/ ExplanationFailed
  \/ \E r \in MetricsReplies : MetricsResolved(r)
  \/ MetricsFailed
  \/ \E h \in {<<"a">>, <<"b">>}, v \in FieldValues : HandleInputChange(h, v)
  \/ HandleGenerateSample
  \/ \E r \in SampleReplies : SampleResolved(r)
  \/ SampleFailed
  \/ HandleTestModel
  \/ PredictionResolved
  \/ PredictionFailed

Spec == Init /\ [][Next]_vars

\* The request a suspended handleGoalSubmit invocation waits for resolves or
\* rejects and the invocation goes on.
GoalRequestSettles ==
  \E t \in BagToSet(goalTasks) :
    \/ \E r \in TargetReplies : TargetResolved(t, r)
    \/ TargetFailed(t)
    \/ \E r \in SuggestionReplies : SuggestionsResolved(t, r)
    \/ \E r \in SuggestionReplies : SuggestionsMalformed(t, r)
    \/ SuggestionsFailed(t)

\* The explanation request of fetchAllData resolves or rejects.
ExplanationSettles == ExplanationResolved \/ ExplanationFailed

\* The metrics request of fetchAllData resolves or rejects.
MetricsSettles == (\E r \in MetricsReplies : MetricsResolved(r)) \/ MetricsFailed

\* The workflow when the service answers every request, with a reply or a
\* rejection: a pending promise is settled in the end.
FairSpec ==
  /\ Spec
  /\ WF_vars(GoalRequestSettles)
  /\ WF_vars(ExplanationSettles)
  /\ WF_vars(MetricsSettles)

(***************************************************************************)
(*                       Properties of the workflow                        *)
(***************************************************************************)

\* C1: a reset leaves the eight App slots at their initial values (stage
\* FILE_UPLOAD, no file, empty goal, task OTHER, empty target column, no
\* suggestions, no selected model, no error), and a second reset applied to
\* that state gives the same state again.
C1_ResetRestoresInitial ==
  [][HandleReset =>
       /\ Session' = InitSession
       /\ handleReset(Session') = Session']_vars

\* A reset has been made while a request of handleGoalSubmit was pending, and
\* the App slots are the initial ones.
C1_Witness ==
  /\ Session = InitSession
  /\ \E t \in BagToSet(goalTasks) : t.stale

\* An invocation of handleGoalSubmit, started before the last reset, resumes
\* because its request has settled.
StaleRequestSettles ==
  \E t \in BagToSet(goalTasks) :
    /\ t.stale
    /\ \/ \E r \in TargetReplies : TargetResolved(t, r)
       \/ TargetFailed(t)
       \/ \E r \in SuggestionReplies : SuggestionsResolved(t, r)
       \/ \E r \in SuggestionReplies : SuggestionsMalformed(t, r)
       \/ SuggestionsFailed(t)

\* C2: when a request issued before a reset settles after it, no session
\* field (stage, target column, suggestions, error) changes.
C2_StaleResultIgnored ==
  [][StaleRequestSettles =>
       UNCHANGED <<appState, targetColumn, modelSuggestions, error>>]_vars

\* The model-suggestions request of some invocation fails, by rejection or by
\* a reply that does not parse.
SuggestionsRequestFails ==
  \E t \in BagToSet(goalTasks) :
    \/ \E r \in SuggestionReplies : SuggestionsMalformed(t, r)
    \/ SuggestionsFailed(t)

\* C3: when the model-suggestions request fails while the stage is
\* PROCESSING, the stage becomes GOAL_INPUT, the error is set and the goal
\* text held by the session is kept as it was, not cleared.
C3_SuggestionFailureKeepsGoal ==
  [][(appState = PROCESSING /\ SuggestionsRequestFails) =>
       /\ appState' = GOAL_INPUT
       /\ error' # Null
       /\ userGoal' = userGoal
       /\ userGoal' # <<>>]_vars

\* The suggestions request for an image has failed: back at the goal form
\* with the error and the goal still held.
C3_Witness ==
  /\ appState = GOAL_INPUT
  /\ fileData # NullObj /\ fileData.type = "image"
  /\ error = msgSuggestFailed
  /\ userGoal = kForecast
  /\ goalTasks = EmptyBag

AnyFieldBlank(values) ==
  \E k \in DOMAIN values :
    \A i \in 1 .. Len(values[k]) : values[k][i] \in WhiteSpace

CsvLike(file) ==
  \/ file.type = mimeCsv
  \/ (Len(file.name) >= 4
        /\ SubSeq(file.name, Len(file.name) - 3, Len(file.name))
             = <<".", "c", "s", "v">>)

\* The file is image-like: a MIME type starting with image/.
ImageLike(file) ==
  Len(file.type) >= 6 /\ SubSeq(file.type, 1, 6) = <<"i", "m", "a", "g", "e", "/">>

\* A file that is neither CSV-like nor image-like is dropped.
InvalidFileDropped ==
  /\ appState = FILE_UPLOAD
  /\ \E f \in DroppedFiles : ~CsvLike(f) /\ ~ImageLike(f) /\ OnDrop(<<f>>)

\* C12: the drop of a file that is neither CSV-like nor image-like reports
\* the invalid-file-type message in the upload view, starts no read and
\* creates no dataset descriptor, and leaves the stage at FILE_UPLOAD.
C12_InvalidFileRejected ==
  [][InvalidFileDropped =>
       /\ uploadError' = msgInvalidFile
       /\ readers' = readers
       /\ fileData' = fileData
       /\ appState' = FILE_UPLOAD]_vars

\* An invalid file has been dropped on a fresh session: the message is shown
\* and nothing else has happened.
C12_Witness ==
  /\ uploadError = msgInvalidFile
  /\ appState = FILE_UPLOAD
  /\ fileData = NullObj
  /\ readers = EmptyBag

\* The stage changes of the workflow as specified; a reset may come from any
\* stage.
ListedStageChanges ==
  { <<FILE_UPLOAD, GOAL_INPUT>>, <<GOAL_INPUT, PROCESSING>>,
    <<PROCESSING, MODEL_SELECTION>>, <<PROCESSING, GOAL_INPUT>>,
    <<MODEL_SELECTION, RESULTS_DASHBOARD>> }
    \cup {<<s, FILE_UPLOAD>> : s \in AppState}

\* C13 as stated: under every interleaving of user events and request
\* completions, every change of appState is one of the listed stage changes.
C13_OnlyListedStageChanges ==
  [][appState' # appState => <<appState, appState'>> \in ListedStageChanges]_vars

\* The suspended invocations of bag b that satisfy Test.
SubBagWhere(b, Test(_)) == [t \in {x \in BagToSet(b) : Test(x)} |-> b[t]]

\* Invocations waiting for a model-suggestions reply about a CSV file.
AwaitsCsvSuggestions(t) == t.pc = "suggest" /\ t.fileData.type = "csv"

\* C14: the steps of handleGoalSubmit run in sequence.  A step that issues
\* the first request of a submission has set the task category of the
\* submitted goal; a model-suggestions request for a CSV file is issued only
\* by the step in which the target-column request of the same invocation
\* resolves; and when a target-column request fails the invocation ends
\* without a model-suggestions request, the stage is GOAL_INPUT and the error
\* is set.
C14_StepsInSequence ==
  [][/\ BagCardinality(goalTasks') > BagCardinality(goalTasks)
          => /\ taskType' = classifyTask(userGoal')
             /\ \A t \in BagToSet(goalTasks') :
                  CopiesIn(t, goalTasks') > CopiesIn(t, goalTasks)
                    => t.pc = (IF t.fileData.type = "csv" THEN "target"
                               ELSE "suggest")
     /\ BagCardinality(SubBagWhere(goalTasks', AwaitsCsvSuggestions))
          > BagCardinality(SubBagWhere(goalTasks, AwaitsCsvSuggestions))
          => \E t \in BagToSet(goalTasks), r \in TargetReplies :
               TargetResolved(t, r)
     /\ \A t \in BagToSet(goalTasks) :
          TargetFailed(t)
            => /\ goalTasks' = Without(goalTasks, t)
               /\ appState' = GOAL_INPUT
               /\ error' # Null]_vars

\* A submission for a CSV file has ended at goal input with the error set
\* and no target column, and nothing is in flight.
C14_Witness ==
  /\ appState = GOAL_INPUT
  /\ error = msgSuggestFailed
  /\ fileData # NullObj /\ fileData.type = "csv"
  /\ targetColumn = <<>>
  /\ userGoal # <<>>
  /\ goalTasks = EmptyBag

\* Requests in flight other than the explanation and metrics requests: one
\* per suspended handleGoalSubmit invocation (target-column or
\* model-suggestions), the sample-row request and the prediction request.
SequencedRequestsInFlight ==
  BagCardinality(goalTasks)
    + (IF dash.mounted /\ dash.samplePending THEN 1 ELSE 0)
    + (IF dash.mounted /\ dash.predictionPending THEN 1 ELSE 0)

\* C15 as stated: apart from the explanation and metrics requests, at most
\* one request is in flight at any time.
C15_OneRequestInFlight == SequencedRequestsInFlight <= 1

\* A step the specification counts as a successful stage transition or a
\* reset: file acceptance, goal submission, arrival of model suggestions,
\* model selection, Start Over.
SuccessfulTransition ==
  \/ \E f \in BagToSet(readers) : ReaderLoaded(f)
  \/ \E g \in TypedGoals : GoalSubmit(g)
  \/ \E t \in BagToSet(goalTasks), r \in SuggestionReplies :
       SuggestionsResolved(t, r)
  \/ \E m \in {"M1", "M2"} : HandleModelSelect(m)
  \/ HandleReset

\* No error message is held: neither by App nor by a mounted dashboard.
NoErrorHeld == error = Null /\ (dash.mounted => dash.error = Null)

\* C16 as stated: immediately after file acceptance, goal submission, the
\* arrival of model suggestions, model selection and reset no error message
\* is held.
C16_ErrorClearedOnTransition ==
  [][SuccessfulTransition => NoErrorHeld']_vars

\* C17 as stated: once a file has been accepted, every step other than a
\* reset leaves the dataset descriptor as it is and does not bring the stage
\* back to GOAL_INPUT from a later stage than PROCESSING.
C17_DescriptorImmutable ==
  [][fileData # NullObj
       => \/ HandleReset
          \/ /\ fileData' = fileData
             /\ appState' = GOAL_INPUT
                  => appState \in {GOAL_INPUT, PROCESSING}]_vars

\* On a dashboard for a CSV file the keys of testInputValues are the columns
\* other than the target column.
KeysAreFeatureColumns ==
  (dash.mounted /\ fileData # NullObj /\ fileData.type = "csv")
    => DOMAIN dash.testInputValues = inputHeaders

\* The step issues a prediction request.
PredictionIssued ==
  /\ dash.mounted /\ ~dash.predictionPending
  /\ dash'.mounted /\ dash'.predictionPending

\* C18 as stated: on a dashboard for a CSV file the keys of testInputValues
\* are, in every state, the columns other than the target column, and a
\* prediction request is issued only when every such column has a value that
\* is not blank.
C18_InputsCoverFeatures ==
  [][/\ KeysAreFeatureColumns'
     /\ PredictionIssued
          => \A h \in inputHeaders :
               /\ h \in DOMAIN dash.testInputValues
               /\ Trim(dash.testInputValues[h]) # <<>>]_vars

\* A request of handleGoalSubmit fails.
GoalRequestFails ==
  \E t \in BagToSet(goalTasks) :
    \/ TargetFailed(t)
    \/ SuggestionsFailed(t)
    \/ \E r \in SuggestionReplies : SuggestionsMalformed(t, r)

\* The dashboard shows an error message; Start Over is rendered at its stage.
FailureShown ==
  /\ dash.mounted /\ dash.error # Null
  /\ appState = RESULTS_DASHBOARD

C21_FailuresKeptApart ==
  [][(MetricsFailed /\ dash.error = msgExplanationFailed)
       => dash'.error = msgExplanationFailed]_vars

\* The model-suggestions request of an invocation for a CSV file fails, by
\* rejection or by a reply that does not parse; its target-column request has
\* resolved before.
CsvSuggestionsRequestFails ==
  \E t \in BagToSet(goalTasks) :
    /\ t.fileData.type = "csv"
    /\ \/ \E r \in SuggestionReplies : SuggestionsMalformed(t, r)
       \/ SuggestionsFailed(t)

\* C22: when the model-suggestions request fails after the target-column
\* request of the same CSV submission has resolved, the stage becomes
\* GOAL_INPUT and targetColumn keeps its value; targetColumn changes only in
\* handleReset or when a target-column request resolves.
C22_TargetKeptOnRevert ==
  [][/\ CsvSuggestionsRequestFails
          => /\ appState' = GOAL_INPUT
             /\ targetColumn' = targetColumn
     /\ targetColumn' # targetColumn
          => \/ HandleReset
             \/ \E t \in BagToSet(goalTasks), r \in TargetReplies :
                  TargetResolved(t, r)]_vars

\* A CSV submission has ended at goal input with the error set after its
\* target column was committed, and nothing is in flight.
C22_Witness ==
  /\ appState = GOAL_INPUT
  /\ error = msgSuggestFailed
  /\ fileData # NullObj /\ fileData.type = "csv"
  /\ targetColumn # <<>>
  /\ userGoal # <<>>
  /\ goalTasks = EmptyBag

\* C23 as stated: targetColumn is non-empty only if the descriptor exists and
\* is a CSV descriptor.
C23_TargetOnlyForCsv ==
  targetColumn # <<>> => (fileData # NullObj /\ fileData.type = "csv")

\* C27 as stated: a selection made in MODEL_SELECTION is of a name among
\* options and more_models, sets selectedModel to that name and the stage to
\* RESULTS_DASHBOARD; and once a model is selected, selectedModel changes
\* only in handleReset.
C27_SelectionKeptUntilReset ==
  [][/\ \A m \in {"M1", "M2"} :
          HandleModelSelect(m)
            => /\ appState = MODEL_SELECTION
               /\ m \in offeredModels(modelSuggestions)
               /\ selectedModel' = m
               /\ appState' = RESULTS_DASHBOARD
     /\ (selectedModel # "" /\ selectedModel' # selectedModel)
          => HandleReset]_vars

\* The text is the typed text without the white space at its two ends, and is
\* not empty.
TrimmedFrom(text, typed) ==
  /\ text # <<>>
  /\ text[1] \notin WhiteSpace /\ text[Len(text)] \notin WhiteSpace
  /\ \E i \in 1 .. (Len(typed) - Len(text) + 1) :
       /\ SubSeq(typed, i, i + Len(text) - 1) = text
       /\ \A j \in 1 .. Len(typed) :
            (j < i \/ j >= i + Len(text)) => typed[j] \in WhiteSpace

\* C28: the stage goes from GOAL_INPUT to PROCESSING only for a typed goal
\* that is not blank, and the goal then held is that text trimmed; a new
\* invocation of handleGoalSubmit with its request comes only with such a
\* step, so a blank submission issues nothing and changes nothing.
C28_OnlyTrimmedGoalAdvances ==
  [][/\ (appState = GOAL_INPUT /\ appState' = PROCESSING)
          => /\ \E g \in TypedGoals : TrimmedFrom(userGoal', g)
             /\ BagCardinality(goalTasks') = BagCardinality(goalTasks) + 1
     /\ BagCardinality(goalTasks') > BagCardinality(goalTasks)
          => /\ appState = GOAL_INPUT /\ appState' = PROCESSING
             /\ userGoal' # <<>>
     /\ \A g \in TypedGoals : GoalSubmitBlank(g) => UNCHANGED vars]_vars

\* The goal typed with a space on either side is held without them while its
\* first request is pending.
C28_Witness ==
  /\ appState = PROCESSING
  /\ userGoal = <<"C", "l", "a", "s", "s", "i", "f", "y">>
  /\ BagCardinality(goalTasks) = 1

\* C29 as stated: the descriptor is present whenever the stage is not
\* FILE_UPLOAD.
C29_DescriptorPastUpload ==
  appState \in {GOAL_INPUT, PROCESSING, MODEL_SELECTION, RESULTS_DASHBOARD}
    => fileData # NullObj

\* C30 as stated: whenever the stage is MODEL_SELECTION, modelSuggestions is a
\* record with recommended, options and more_models.
C30_SuggestionsWhenSelecting ==
  appState = MODEL_SELECTION
    => /\ modelSuggestions # NullObj
       /\ {"recommended", "options", "more_models"}
            \subseteq DOMAIN modelSuggestions

\* C31: the task type held is always the classification of the goal held
\* (OTHER for the empty goal), and the two change only in a goal submission
\* or in handleReset.
C31_TaskTypeFollowsGoal ==
  /\ [](taskType = classifyTask(userGoal))
  /\ [][(userGoal' # userGoal \/ taskType' # taskType)
          => \/ \E g \in TypedGoals : GoalSubmit(g)
             \/ HandleReset]_vars

\* A forecast goal has been classified and the pass has reached the results.
C31_Witness ==
  /\ appState = RESULTS_DASHBOARD
  /\ userGoal = kForecast
  /\ taskType = REGRESSION

\* C32: when every request is answered, a session at PROCESSING comes to
\* MODEL_SELECTION, GOAL_INPUT or FILE_UPLOAD.
C32_ProcessingEnds ==
  (appState = PROCESSING)
    ~> (appState \in {MODEL_SELECTION, GOAL_INPUT, FILE_UPLOAD})

\* A CSV submission waits at PROCESSING for its model suggestions, the target
\* column already committed.
C32_Witness ==
  /\ appState = PROCESSING
  /\ targetColumn # <<>>
  /\ \E t \in BagToSet(goalTasks) : t.pc = "suggest" /\ ~t.stale

\* C33 as stated: when every request is answered, a mounted dashboard that no
\* reset takes away comes to show neither the explanation nor the metrics as
\* loading.
C33_LoadingEnds ==
  dash.mounted
    ~> (IF dash.mounted
        THEN ~dash.isLoading.explanation /\ ~dash.isLoading.metrics
        ELSE TRUE)

(***************************************************************************)
(*      The task classification of handleGoalSubmit, exercised alone       *)
(***************************************************************************)

\* Pieces a goal text is put together from.
MaxFragments == 3

GoalFragments ==
  { kClassify,
    <<"C", "L", "A", "S", "S", "I", "F", "Y">>,
    <<"C", "a", "t", "e", "g", "o", "r", "i", "z", "e">>,
    <<"I", "d", "e", "n", "t", "i", "f", "y">>,
    kPredict,
    <<"F", "o", "r", "e", "c", "a", "s", "t">>,
    <<"E", "S", "T", "I", "M", "A", "T", "E">>,
    <<"c", "l", "a", "s", "s">>,
    <<"i", "F", "y">>,
    <<"p", "r", "e">>,
    <<"d", "i", "c", "t">>,
    <<" ", "m", "y", " ">> }

RECURSIVE Concats(_)
Concats(n) ==
  IF n = 0 THEN {<<>>}
  ELSE LET shorter == Concats(n - 1)
       IN  shorter \cup {p \o f : p \in shorter, f \in GoalFragments}

ClassifyGoals == Concats(MaxFragments)

InitClassify ==
  /\ InitWorkflow
  /\ arg \in {[fn |-> "classifyTask", goal |-> g] : g \in ClassifyGoals}
  /\ result = NoResult

\* Lines 35-42 of handleGoalSubmit for the goal at hand.
ApplyClassify ==
  /\ arg # NoArg /\ arg.fn = "classifyTask"
  /\ result = NoResult
  /\ result' = [fn |-> arg.fn, value |-> classifyTask(arg.goal)]
  /\ UNCHANGED <<workflowVars, arg>>

SpecClassify == InitClassify /\ [][ApplyClassify]_vars

\* The upper-case form of a keyword letter.
UpperChar(ch) ==
  CASE ch = "a" -> "A" [] ch = "b" -> "B" [] ch = "c" -> "C" [] ch = "d" -> "D"
    [] ch = "e" -> "E" [] ch = "f" -> "F" [] ch = "g" -> "G" [] ch = "i" -> "I"
    [] ch = "l" -> "L" [] ch = "m" -> "M" [] ch = "n" -> "N" [] ch = "o" -> "O"
    [] ch = "p" -> "P" [] ch = "q" -> "Q" [] ch = "r" -> "R" [] ch = "s" -> "S"
    [] ch = "t" -> "T" [] ch = "u" -> "U" [] ch = "v" -> "V" [] ch = "y" -> "Y"
    [] ch = "z" -> "Z" [] OTHER -> ch

\* The goal holds keyword kw in some mix of upper and lower case.
HoldsKeyword(goal, kw) ==
  \E at \in 0 .. (Len(goal) - Len(kw)) :
    \A j \in 1 .. Len(kw) : goal[at + j] \in {kw[j], UpperChar(kw[j])}

HoldsClassificationWord(goal) ==
  \E kw \in {kClassify, kCategorize, kIdentify} : HoldsKeyword(goal, kw)

HoldsRegressionWord(goal) ==
  \E kw \in {kPredict, kForecast, kEstimate} : HoldsKeyword(goal, kw)

Classified == result # NoResult /\ result.fn = "classifyTask"

\* C8: a goal that holds, in any letter case, one of classify, categorize,
\* identify is CLASSIFICATION even when it also holds predict, forecast or
\* estimate; a goal that holds one of the latter and none of the former is
\* REGRESSION.
C8_ClassificationPrecedence ==
  Classified =>
    /\ HoldsClassificationWord(arg.goal) => result.value = CLASSIFICATION
    /\ (HoldsRegressionWord(arg.goal) /\ ~HoldsClassificationWord(arg.goal))
         => result.value = REGRESSION

\* A goal with a word of each kind has been classified as CLASSIFICATION.
C8_Witness ==
  /\ Classified
  /\ HoldsClassificationWord(arg.goal)
  /\ HoldsRegressionWord(arg.goal)
  /\ result.value = CLASSIFICATION

\* C9: a goal that holds none of the six keywords, in any letter case, is
\* OTHER.
C9_NoKeywordIsOther ==
  (Classified /\ ~HoldsClassificationWord(arg.goal)
     /\ ~HoldsRegressionWord(arg.goal))
    => result.value = OTHER_TASK

\* A goal made of keyword pieces that form no keyword has been classified.
C9_Witness ==
  /\ Classified
  /\ Len(arg.goal) >= 8
  /\ ~HoldsClassificationWord(arg.goal)
  /\ ~HoldsRegressionWord(arg.goal)
  /\ result.value = OTHER_TASK

(***************************************************************************)
(*            geminiService.extractTargetColumn, exercised alone           *)
(***************************************************************************)

\* Longest reply text and longest header list tried.
MaxReplyLen == 4
MaxHeaders == 2

ReplyAlphabet == {"a", "b", "\"", " "}

RECURSIVE StringsUpTo(_, _)
StringsUpTo(alphabet, n) ==
  IF n = 0 THEN {<<>>}
  ELSE LET shorter == StringsUpTo(alphabet, n - 1)
       IN  shorter \cup {Append(w, ch) : w \in shorter, ch \in alphabet}

HeaderNames == { <<"a">>, <<"b">>, <<"a", "b">>, <<>> }

RECURSIVE ListsUpTo(_, _)
ListsUpTo(names, n) ==
  IF n = 0 THEN {<<>>}
  ELSE LET shorter == ListsUpTo(names, n - 1)
       IN  shorter \cup {Append(l, h) : l \in shorter, h \in names}

InitTarget ==
  /\ InitWorkflow
  /\ arg \in {[fn |-> "extractTargetColumn", text |-> t, headers |-> hs] :
                t \in StringsUpTo(ReplyAlphabet, MaxReplyLen),
                hs \in ListsUpTo(HeaderNames, MaxHeaders)}
  /\ result = NoResult

\* extractTargetColumn from the arrival of the reply to its return.
ApplyExtractTarget ==
  /\ arg # NoArg /\ arg.fn = "extractTargetColumn"
  /\ result = NoResult
  /\ result' = [fn |-> arg.fn,
                value |-> targetFromResponse(arg.text, arg.headers)]
  /\ UNCHANGED <<workflowVars, arg>>

SpecTarget == InitTarget /\ [][ApplyExtractTarget]_vars

TargetExtracted == result # NoResult /\ result.fn = "extractTargetColumn"

Surrounding == WhiteSpace \cup {"\""}

Unwrapped(text) ==
  LET inner == {i \in 1 .. Len(text) : text[i] \notin Surrounding}
  IN  IF inner = {} THEN <<>>
      ELSE SubSeq(text, CHOOSE i \in inner : \A j \in inner : i <= j,
                        CHOOSE i \in inner : \A j \in inner : i >= j)

\* The reply between its first and last character that is not white space,
\* with every double quote left out.
Cleaned(text) ==
  LET inked == {i \in 1 .. Len(text) : text[i] \notin WhiteSpace}
      kept == {i \in 1 .. Len(text) :
                 /\ text[i] # "\""
                 /\ \E j \in inked : j <= i
                 /\ \E j \in inked : j >= i}
      nth[k \in 0 .. Cardinality(kept)] ==
        IF k = 0 THEN 0
        ELSE CHOOSE i \in kept :
               Cardinality({j \in kept : j < i}) = k - 1
  IN  [k \in 1 .. Cardinality(kept) |-> text[nth[k]]]

\* C24 as stated: the reply is stripped of the quotes and white space around
\* it; if what is left is a header it is returned, otherwise the last header.
C24_SurroundingStripped ==
  (TargetExtracted /\ Len(arg.headers) > 0) =>
    result.value = (IF ArrayIncludes(arg.headers, Unwrapped(arg.text))
                    THEN Unwrapped(arg.text)
                    ELSE arg.headers[Len(arg.headers)])

\* C24: the reply is trimmed of white space at both ends and then loses every
\* double quote, wherever it stands; if what is left is a header it is
\* returned as it is, otherwise the last header of a list that is not empty
\* is returned, and a value is returned in every case.
C24_TrimmedThenUnquoted ==
  TargetExtracted =>
    /\ ArrayIncludes(arg.headers, Cleaned(arg.text))
         => result.value = Cleaned(arg.text)
    /\ (~ArrayIncludes(arg.headers, Cleaned(arg.text)) /\ Len(arg.headers) > 0)
         => result.value = arg.headers[Len(arg.headers)]

\* A reply in quotes after a space, naming the first of two headers, has been
\* answered with that header.
C24_Witness ==
  /\ TargetExtracted
  /\ arg.text = <<" ", "\"", "a", "\"">>
  /\ arg.headers = << <<"a">>, <<"b">> >>
  /\ result.value = <<"a">>

(***************************************************************************)
(*          The header derivation of FileUpload, exercised alone           *)
(***************************************************************************)

\* Longest file content tried.
MaxContentLen == 5

ContentAlphabet == {"a", ",", "\"", " ", "\n"}

\* The content of the specification's example: a,"b",c and a row.
exampleCsv ==
  <<"a", ",", "\"", "b", "\"", ",", "c", "\n", "r", "o", "w", "1">>

InitHeaders ==
  /\ InitWorkflow
  /\ arg \in {[fn |-> "deriveHeaders", content |-> c] :
                c \in StringsUpTo(ContentAlphabet, MaxContentLen)
                        \cup {exampleCsv}}
  /\ result = NoResult

\* Lines 34-35 of reader.onload for the content at hand.
ApplyDeriveHeaders ==
  /\ arg # NoArg /\ arg.fn = "deriveHeaders"
  /\ result = NoResult
  /\ result' = [fn |-> arg.fn, value |-> deriveHeaders(arg.content)]
  /\ UNCHANGED <<workflowVars, arg>>

SpecHeaders == InitHeaders /\ [][ApplyDeriveHeaders]_vars

HeadersDerived == result # NoResult /\ result.fn = "deriveHeaders"

\* The content before its first line break.
FirstLine(content) ==
  LET breaks == {i \in 1 .. Len(content) : content[i] = "\n"}
  IN  IF breaks = {} THEN content
      ELSE SubSeq(content, 1,
                  (CHOOSE i \in breaks : \A j \in breaks : i <= j) - 1)

CountOf(ch, s) == Cardinality({i \in 1 .. Len(s) : s[i] = ch})

NoQuote(name) == \A i \in 1 .. Len(name) : name[i] # "\""

NoOuterSpace(name) ==
  name = <<>> \/ (name[1] \notin WhiteSpace /\ name[Len(name)] \notin WhiteSpace)

\* One name per comma-separated field of the first line, and the example.
FieldPerComma ==
  /\ Len(result.value) = CountOf(",", FirstLine(arg.content)) + 1
  /\ arg.content = exampleCsv => result.value = << <<"a">>, <<"b">>, <<"c">> >>

\* C10 as stated: one name per comma-separated field of the first line, the
\* example gives a, b, c, and no name carries a double quote or surrounding
\* whitespace.
C10_NamesClean ==
  HeadersDerived =>
    /\ FieldPerComma
    /\ \A i \in 1 .. Len(result.value) :
         NoQuote(result.value[i]) /\ NoOuterSpace(result.value[i])

\* C10: one name per comma-separated field of the first line, the example
\* gives a, b, c, no name carries a double quote, and no name carries
\* surrounding whitespace when the first line holds no double quote.
C10_NamesCleanUnlessQuoted ==
  HeadersDerived =>
    /\ FieldPerComma
    /\ \A i \in 1 .. Len(result.value) : NoQuote(result.value[i])
    /\ CountOf("\"", FirstLine(arg.content)) = 0
         => \A i \in 1 .. Len(result.value) : NoOuterSpace(result.value[i])

\* A first line with a quoted field next to a padded field has been split.
C10_Witness ==
  /\ HeadersDerived
  /\ arg.content = <<"\"", "a", "\"", ",", " ">>
  /\ result.value = << <<"a">>, <<>> >>

\* C26 as stated: for a content with no characters the derived list of names
\* is the empty list.
C26_EmptyContentNoNames ==
  (HeadersDerived /\ arg.content = <<>>) => result.value = <<>>

(***************************************************************************)
(*     The response schema of geminiService.generateSampleInput, alone     *)
(***************************************************************************)

TYPE_NUMBER == "NUMBER"
TYPE_STRING == "STRING"

\* The alternatives of the regular expression of line 223.
numericHints ==
  { <<"i", "d">>, <<"y", "e", "a", "r">>, <<"a", "g", "e">>,
    <<"c", "o", "u", "n", "t">>,
    <<"q", "u", "a", "n", "t", "i", "t", "y">>,
    <<"n", "u", "m", "b", "e", "r">>, <<"p", "r", "i", "c", "e">>,
    <<"v", "a", "l", "u", "e">>, <<"s", "c", "o", "r", "e">>,
    <<"r", "a", "t", "e">>, <<"a", "m", "o", "u", "n", "t">> }

\* A plausible slip: the regular expression without its i flag.
isNumericHeaderCaseSensitive(header) ==
  \E hint \in numericHints : Includes(header, hint)

\* /(id|year|...|amount)/i.test(header)
isNumericHeader(header) ==
  \E hint \in numericHints : Includes(ToLowerCase(header), hint)

\* headers.filter(h => h !== targetColumn)
RECURSIVE FilterNot(_, _)
FilterNot(headers, target) ==
  IF headers = <<>> THEN <<>>
  ELSE IF Head(headers) # target
       THEN <<Head(headers)>> \o FilterNot(Tail(headers), target)
       ELSE FilterNot(Tail(headers), target)

\* The responseSchema generateSampleInput sends: properties (the reduce of
\* lines 221-229) and required.
sampleSchema(headers, target) ==
  LET sampleInputHeaders == FilterNot(headers, target)
      keys == {sampleInputHeaders[i] : i \in 1 .. Len(sampleInputHeaders)}
  IN  [properties |-> [h \in keys |->
                         IF isNumericHeader(h) THEN [type |-> TYPE_NUMBER]
                         ELSE [type |-> TYPE_STRING]],
       required |-> sampleInputHeaders]

\* Longest header list tried for the schema.
MaxSchemaHeaders == 3

namePrice == <<"P", "r", "i", "c", "e">>
nameCategory == <<"C", "a", "t", "e", "g", "o", "r", "y">>

\* Column names: the two of the specification's example, a hint in upper
\* case, a hint inside a longer word, a name with no hint, the empty name.
SchemaColumnNames ==
  { namePrice, nameCategory, <<"A", "G", "E">>, <<"p", "a", "i", "d">>,
    <<"b">>, <<>> }

InitSchema ==
  /\ InitWorkflow
  /\ arg \in {[fn |-> "sampleSchema", headers |-> hs, target |-> t] :
                hs \in ListsUpTo(SchemaColumnNames, MaxSchemaHeaders),
                t \in SchemaColumnNames \cup {Undefined}}
  /\ result = NoResult

\* generateSampleInput up to its request, for the arguments at hand.
ApplySampleSchema ==
  /\ arg # NoArg /\ arg.fn = "sampleSchema"
  /\ result = NoResult
  /\ result' = [fn |-> arg.fn, value |-> sampleSchema(arg.headers, arg.target)]
  /\ UNCHANGED <<workflowVars, arg>>

SpecSchema == InitSchema /\ [][ApplySampleSchema]_vars

SchemaBuilt == result # NoResult /\ result.fn = "sampleSchema"

\* The columns of the argument other than the target column.
FeatureColumns ==
  {arg.headers[i] : i \in 1 .. Len(arg.headers)} \ {arg.target}

\* The name holds one of the eleven hints in some mix of upper and lower case.
HoldsNumericHint(name) == \E hint \in numericHints : HoldsKeyword(name, hint)

\* C11: the schema has one property per column other than the target column,
\* each such column and nothing else is listed as required, a property is
\* typed NUMBER exactly when its name holds one of the eleven hints in any
\* letter case and STRING otherwise, and the target column is nowhere in it.
C11_SampleSchemaShape ==
  SchemaBuilt =>
    LET schema == result.value
    IN  /\ DOMAIN schema.properties = FeatureColumns
        /\ {schema.required[i] : i \in 1 .. Len(schema.required)}
             = FeatureColumns
        /\ \A h \in FeatureColumns :
             /\ HoldsNumericHint(h) <=> schema.properties[h].type = TYPE_NUMBER
             /\ ~HoldsNumericHint(h) <=> schema.properties[h].type = TYPE_STRING
        /\ arg.target \notin DOMAIN schema.properties
        /\ ~ArrayIncludes(schema.required, arg.target)

\* The schema of Price, Category and a target column has been built: Price
\* is NUMBER, Category is STRING, the target is left out.
C11_Witness ==
  /\ SchemaBuilt
  /\ arg.headers = <<namePrice, nameCategory, <<"b">> >>
  /\ arg.target = <<"b">>
  /\ result.value.properties[namePrice].type = TYPE_NUMBER
  /\ result.value.properties[nameCategory].type = TYPE_STRING
  /\ result.value.required = <<namePrice, nameCategory>>

(***************************************************************************)
(*    The reply handling of the schema-constrained requests, alone         *)
(***************************************************************************)

\* JSON.parse on texts over the alphabet { } 7 space <: the text is a number
\* written with the digit 7 or the empty object, with white space around it
\* (and inside the braces); every other text over this alphabet makes
\* JSON.parse throw.
JSONparse(text) ==
  LET body == Trim(text)
  IN  IF body # <<>> /\ \A i \in 1 .. Len(body) : body[i] = "7"
      THEN [ok |-> TRUE, value |-> [t |-> "num", digits |-> body]]
      ELSE IF /\ Len(body) >= 2
              /\ body[1] = "{" /\ body[Len(body)] = "}"
              /\ \A i \in 2 .. Len(body) - 1 : body[i] \in WhiteSpace
      THEN [ok |-> TRUE, value |-> [t |-> "obj", props |-> NoProps]]
      ELSE [ok |-> FALSE]

msgBadSuggestions == "Received invalid format for model suggestions."
msgBadMetrics == "Received invalid format for metrics."
msgBadSample == "Received invalid format for sample input."

\* Lines 44-50, 192-198 and 244-250: trim the reply text, return what
\* JSON.parse makes of it, or throw the operation's own Error.
parsedOrThrow(text, message) ==
  LET parsed == JSONparse(Trim(text))
  IN  IF parsed.ok THEN [returns |-> TRUE, value |-> parsed.value]
      ELSE [returns |-> FALSE, thrown |-> message]

\* generateModelSuggestions from the arrival of the reply.
suggestionsFromResponse(text) == parsedOrThrow(text, msgBadSuggestions)

\* A plausible slip: the catch block gives null instead of throwing.
metricsFromResponseLenient(text) ==
  LET parsed == JSONparse(Trim(text))
  IN  IF parsed.ok THEN [returns |-> TRUE, value |-> parsed.value]
      ELSE [returns |-> TRUE, value |-> NullObj]

\* generateMetrics from the arrival of the reply.
metricsFromResponse(text) == parsedOrThrow(text, msgBadMetrics)

\* generateSampleInput from the arrival of the reply.
sampleFromResponse(text) == parsedOrThrow(text, msgBadSample)

\* Longest reply text tried.
MaxJsonLen == 4

JsonAlphabet == {"{", "}", "7", " ", "<"}

JsonTexts == StringsUpTo(JsonAlphabet, MaxJsonLen)

InitReplies ==
  /\ InitWorkflow
  /\ arg \in {[fn |-> f, text |-> t] :
                f \in {"generateModelSuggestions", "generateMetrics",
                       "generateSampleInput"},
                t \in JsonTexts}
  /\ result = NoResult

ApplySuggestionsReply ==
  /\ arg # NoArg /\ arg.fn = "generateModelSuggestions"
  /\ result = NoResult
  /\ result' = [fn |-> arg.fn, value |-> suggestionsFromResponse(arg.text)]
  /\ UNCHANGED <<workflowVars, arg>>

ApplyMetricsReply ==
  /\ arg # NoArg /\ arg.fn = "generateMetrics"
  /\ result = NoResult
  /\ result' = [fn |-> arg.fn, value |-> metricsFromResponse(arg.text)]
  /\ UNCHANGED <<workflowVars, arg>>

ApplySampleReply ==
  /\ arg # NoArg /\ arg.fn = "generateSampleInput"
  /\ result = NoResult
  /\ result' = [fn |-> arg.fn, value |-> sampleFromResponse(arg.text)]
  /\ UNCHANGED <<workflowVars, arg>>

NextReplies ==
  \/ ApplySuggestionsReply
  \/ ApplyMetricsReply
  \/ ApplySampleReply

SpecReplies == InitReplies /\ [][NextReplies]_vars

ReplyHandled ==
  /\ result # NoResult
  /\ result.fn \in {"generateModelSuggestions", "generateMetrics",
                    "generateSampleInput"}

\* n spaces.
RECURSIVE Spaces(_)
Spaces(n) == IF n = 0 THEN <<>> ELSE <<" ">> \o Spaces(n - 1)

\* n times the digit 7.
RECURSIVE Sevens(_)
Sevens(n) == IF n = 0 THEN <<>> ELSE <<"7">> \o Sevens(n - 1)

\* What a well-formed text of at most n characters stands for: the number
\* written with k sevens, or the empty object.
StructuredTexts(n) ==
  {[text |-> Spaces(i) \o Sevens(k) \o Spaces(j),
    data |-> [t |-> "num", digits |-> Sevens(k)]] :
      i \in 0 .. n, j \in 0 .. n, k \in 1 .. n}
  \cup
  {[text |-> Spaces(i) \o <<"{">> \o Spaces(k) \o <<"}">> \o Spaces(j),
    data |-> [t |-> "obj", props |-> NoProps]] :
      i \in 0 .. n, j \in 0 .. n, k \in 0 .. n}

\* The message of the operation's malformed-response error.
MalformedResponse(fn) ==
  CASE fn = "generateModelSuggestions" -> msgBadSuggestions
    [] fn = "generateMetrics" -> msgBadMetrics
    [] fn = "generateSampleInput" -> msgBadSample

\* C19: for each of generateModelSuggestions, generateMetrics and
\* generateSampleInput, a reply text that is not well-formed makes the
\* operation throw its malformed-response error and return nothing, and a
\* well-formed text makes it return the data the text stands for.
C19_MalformedReplyFails ==
  ReplyHandled =>
    LET wellFormed ==
          {s \in StructuredTexts(Len(arg.text)) : s.text = arg.text}
    IN  /\ wellFormed = {}
          => /\ ~result.value.returns
             /\ result.value.thrown = MalformedResponse(result.fn)
        /\ \A s \in wellFormed :
             result.value.returns /\ result.value.value = s.data

\* generateMetrics has thrown on a reply that opens an object and does not
\* close it.
C19_Witness ==
  /\ ReplyHandled
  /\ result.fn = "generateMetrics"
  /\ arg.text = <<" ", "{", " ", "<">>
  /\ ~result.value.returns
  /\ result.value.thrown = msgBadMetrics

(***************************************************************************)
(*        geminiService.generateMetrics up to its request, alone           *)
(***************************************************************************)

TYPE_OBJECT == "OBJECT"
TYPE_ARRAY == "ARRAY"
TYPE_INTEGER == "INTEGER"

txtClassificationMetrics == "For classification, include accuracy, precision, recall, F1-score, and a 2x2 confusion matrix for a binary case. The values should be between 0.85 and 0.98."
txtRegressionMetrics == "For regression, include R-squared, Mean Squared Error (MSE), and Mean Absolute Error (MAE). R-squared should be between 0.8 and 0.95, and errors should be realistic for a sample problem."

\* An object schema whose properties are NUMBER, one per name.
numberProperties(names) ==
  [type |-> TYPE_OBJECT,
   properties |-> [n \in names |-> [type |-> TYPE_NUMBER]]]

classificationProperties ==
  [n \in {"metrics", "confusion_matrix"} |->
     IF n = "metrics"
     THEN numberProperties({"Accuracy", "Precision", "Recall", "F1-Score"})
     ELSE [type |-> TYPE_ARRAY,
           items |-> [type |-> TYPE_ARRAY,
                      items |-> [type |-> TYPE_INTEGER]]]]

regressionProperties ==
  [n \in {"metrics"} |->
     numberProperties({"R-squared", "Mean Squared Error",
                       "Mean Absolute Error"})]

\* A plausible slip: only REGRESSION gets the regression schema.
metricsRequestRegressionOnly(model, goal, type) ==
  [prompt |-> [model |-> model, goal |-> goal,
               taskDescription |-> IF type = CLASSIFICATION
                                   THEN txtClassificationMetrics
                                   ELSE txtRegressionMetrics],
   responseSchema |-> [type |-> TYPE_OBJECT,
                       properties |-> IF type = REGRESSION
                                      THEN regressionProperties
                                      ELSE classificationProperties]]

\* The prompt and the responseSchema generateMetrics sends.
metricsRequest(model, goal, type) ==
  [prompt |-> [model |-> model, goal |-> goal,
               taskDescription |-> IF type = CLASSIFICATION
                                   THEN txtClassificationMetrics
                                   ELSE txtRegressionMetrics],
   responseSchema |-> [type |-> TYPE_OBJECT,
                       properties |-> IF type = CLASSIFICATION
                                      THEN classificationProperties
                                      ELSE regressionProperties]]

\* Longest goal tried for the metrics request.
MaxMetricsGoalLen == 3

InitMetrics ==
  /\ InitWorkflow
  /\ arg \in {[fn |-> "generateMetrics", model |-> m, goal |-> g,
               taskType |-> t] :
                m \in {"M1", "M2"},
                g \in StringsUpTo({"a", "b"}, MaxMetricsGoalLen),
                t \in {CLASSIFICATION, REGRESSION, OTHER_TASK}}
  /\ result = NoResult

\* generateMetrics up to its request, for the arguments at hand.
ApplyMetricsRequest ==
  /\ arg # NoArg /\ arg.fn = "generateMetrics"
  /\ result = NoResult
  /\ result' = [fn |-> arg.fn,
                value |-> metricsRequest(arg.model, arg.goal, arg.taskType)]
  /\ UNCHANGED <<workflowVars, arg>>

SpecMetrics == InitMetrics /\ [][ApplyMetricsRequest]_vars

MetricsRequested == result # NoResult /\ result.fn = "generateMetrics"

\* C25: the schema of the metrics request is fixed by the task category
\* alone: for CLASSIFICATION it declares Accuracy, Precision, Recall and
\* F1-Score and a confusion matrix; for REGRESSION and for OTHER it declares
\* R-squared, Mean Squared Error and Mean Absolute Error and no confusion
\* matrix.
C25_SchemaByCategory ==
  MetricsRequested =>
    LET declared == result.value.responseSchema.properties
        names == DOMAIN declared["metrics"].properties
    IN  /\ "metrics" \in DOMAIN declared
        /\ IF arg.taskType = CLASSIFICATION
           THEN /\ names = {"Accuracy", "Precision", "Recall", "F1-Score"}
                /\ "confusion_matrix" \in DOMAIN declared
           ELSE /\ names = {"R-squared", "Mean Squared Error",
                            "Mean Absolute Error"}
                /\ "confusion_matrix" \notin DOMAIN declared
        /\ \A m \in {"M1", "M2"}, g \in {<<>>, <<"b">>} :
             metricsRequest(m, g, arg.taskType).responseSchema
               = result.value.responseSchema

\* The request for a goal of category OTHER has been built: three regression
\* metrics and no confusion matrix.
C25_Witness ==
  /\ MetricsRequested
  /\ arg.taskType = OTHER_TASK
  /\ arg.goal = <<"a", "b">>
  /\ DOMAIN result.value.responseSchema.properties = {"metrics"}

====
